---- MODULE Spec2Model ----
(***************************************************************************)
(* Model of src/lang_processor.py: the four-stage pipeline of              *)
(* MinecraftLangProcessor (extract_lang_diff, find_untranslated,           *)
(* auto_translate, build_resource_pack) driven by main, over the files of  *)
(* the working directory.                                                  *)
(*                                                                         *)
(* A table (a Python dict str -> str) is a function from a set of keys to  *)
(* strings; a string is a sequence of characters.  Every artifact the      *)
(* program writes is written in ascending key order (lines 178, 215, 407), *)
(* so the item order of a loaded table is its ascending key order.         *)
(* A file is absent, holds a table, or is corrupt (truncated: open(..,'w') *)
(* at line 104 empties the file before json.dump at line 105 fills it).    *)
(***************************************************************************)
EXTENDS Integers, Sequences, FiniteSets, TLC

\* ---------------------------------------------------------------- bounds
\* MaxKey: the keys are 1..MaxKey.  MaxDay: the dates are 1..MaxDay.
\* ChunkSize: translation_chunk_size (1500 at line 64), scaled down.
\* MaxRuns: processes started in a behaviour.  MaxFaults: file writes that
\* fail in a behaviour.
MaxKey == 3
MaxDay == 2
ChunkSize == 1
MaxRuns == 2
MaxFaults == 1

Keys == 1..MaxKey
Days == 1..MaxDay
ChunkIdx == 1..MaxKey

\* ---------------------------------------------------------------- strings
EMPTY == << >>
EN == << "e" >>
ENQ == << "e", "'" >>
JA == << "j" >>

\* str.replace("'", "''") of line 143
RECURSIVE Escape(_)
Escape(s) ==
  IF s = << >> THEN << >>
  ELSE IF Head(s) = "'" THEN << "'", "'" >> \o Escape(Tail(s))
  ELSE << Head(s) >> \o Escape(Tail(s))

\* truthiness of a str value (`if v`, line 213)
Truthy(v) == v # << >>

\* ---------------------------------------------------------------- tables
EmptyTable == << >>

\* dict.update: base.update(overlay), the overlay's value wins
Merge(base, overlay) ==
  [k \in (DOMAIN base) \cup (DOMAIN overlay) |->
      IF k \in DOMAIN overlay THEN overlay[k] ELSE base[k]]

Restrict(t, S) == [k \in (DOMAIN t) \cap S |-> t[k]]

\* the elements of S in ascending order
RECURSIVE SortedSeq(_)
SortedSeq(S) ==
  IF S = {} THEN << >>
  ELSE LET m == CHOOSE x \in S : \A y \in S : x <= y
       IN << m >> \o SortedSeq(S \ {m})

\* list(data.items()) of line 288, as the sequence of keys in item order
Items(t) == SortedSeq(DOMAIN t)

\* ---------------------------------------------------------------- files
Absent == [st |-> "absent", tab |-> EmptyTable]
Corrupt == [st |-> "corrupt", tab |-> EmptyTable]
File(t) == [st |-> "ok", tab |-> t]

\* Path.exists()
Exists(f) == f.st # "absent"

\* _load_json: None for a missing or unparsable file, else the table
LoadJson(f) ==
  IF f.st = "ok" THEN [none |-> FALSE, tab |-> f.tab]
  ELSE [none |-> TRUE, tab |-> EmptyTable]

\* `_load_json(p) or {}`
LoadOrEmpty(f) == IF LoadJson(f).none THEN EmptyTable ELSE LoadJson(f).tab

\* _save_json: the outcome is that of the file system.  "ok": the file holds
\* the data.  "writefail": open() at line 104 truncated the file and the
\* write at line 105 did not complete (the disk is full, the process is
\* stopped); an exception is caught at line 107 and only logged.
SaveOutcomes == {"ok", "writefail"}
SaveJson(data, old, outcome) ==
  IF outcome = "ok" THEN File(data) ELSE Corrupt

\* _get_latest_file: the file of greatest modification time.  The clock is
\* monotone and a run writes the file named by the date it read, so the
\* greatest existing date is the latest modification.  0: no file.
LatestDay(dir) ==
  IF \A d \in Days : ~Exists(dir[d]) THEN 0
  ELSE CHOOSE d \in Days : Exists(dir[d]) /\ \A e \in Days : Exists(dir[e]) => e <= d

\* ---------------------------------------------------------------- archives
\* A JSON value of a language file: a string, or something else (number,
\* list, object), which line 142 skips.
Str(v) == [str |-> TRUE, v |-> v]
NonStr == [str |-> FALSE, v |-> EMPTY]

\* An archive member.  lang: which suffix its name ends with (line 130);
\* assets, langdir: whether "assets" and "lang" occur in its name (line 134);
\* kind: "object" (json.load gives a dict), "undecodable" (json.load raises
\* JSONDecodeError or UnicodeDecodeError), "nonobject" (json.load gives a
\* list or a scalar, so data.items() raises AttributeError at line 141).
Member(lang, kind, data) ==
  [lang |-> lang, assets |-> TRUE, langdir |-> TRUE, kind |-> kind, data |-> data]
Stray(lang, data) ==
  [lang |-> lang, assets |-> FALSE, langdir |-> TRUE, kind |-> "object", data |-> data]

Jar(members) == [bad |-> FALSE, members |-> members]
BadZip == [bad |-> TRUE, members |-> << >>]

Dir(archives) == [exists |-> TRUE, archives |-> archives]
NoDir == [exists |-> FALSE, archives |-> << >>]

\* lines 141-143: fold the string values of one decoded member into a table
FoldMember(target, data) ==
  Merge(target, [k \in {x \in DOMAIN data : data[x].str} |-> Escape(data[k].v)])

\* lines 129-149: the members of one archive in namelist order.  acc is
\* [en, ja].  An undecodable member is skipped (line 144); a nonobject
\* member raises out of the loop to line 148 and ends the archive.
RECURSIVE ScanMembers(_, _)
ScanMembers(members, acc) ==
  IF members = << >> THEN acc
  ELSE LET m == Head(members)
       IN IF m.lang = "other" \/ ~m.assets \/ ~m.langdir
            THEN ScanMembers(Tail(members), acc)
          ELSE IF m.kind = "undecodable"
            THEN ScanMembers(Tail(members), acc)
          ELSE IF m.kind = "nonobject"
            THEN acc
          ELSE IF m.lang = "en_us"
            THEN ScanMembers(Tail(members), [acc EXCEPT !.en = FoldMember(acc.en, m.data)])
          ELSE ScanMembers(Tail(members), [acc EXCEPT !.ja = FoldMember(acc.ja, m.data)])

\* _extract_lang_from_zip
ExtractLangFromZip(archive, acc) ==
  IF archive.bad THEN acc ELSE ScanMembers(archive.members, acc)

RECURSIVE ScanArchives(_, _)
ScanArchives(archives, acc) ==
  IF archives = << >> THEN acc
  ELSE ScanArchives(Tail(archives), ExtractLangFromZip(Head(archives), acc))

\* lines 156-175: mods first, then datapacks
Aggregate(w) ==
  LET a0 == [en |-> EmptyTable, ja |-> EmptyTable]
      a1 == IF w.mods.exists THEN ScanArchives(w.mods.archives, a0) ELSE a0
  IN IF w.datapacks.exists THEN ScanArchives(w.datapacks.archives, a1) ELSE a1

\* lines 177-178: the keys of en_us that are no key of ja_jp
AllDiff(en, ja) == Restrict(en, (DOMAIN en) \ (DOMAIN ja))

\* The installations the pipeline is run against.
AllStr(S, v) == [k \in S |-> Str(v)]
OneTwo(v, w) == [k \in {1, 2} |-> IF k = 1 THEN v ELSE w]
Worlds ==
  << [mods |-> Dir(<< BadZip,
                      Jar(<< Member("en_us", "object", OneTwo(Str(EN), Str(ENQ))),
                             Stray("ja_jp", AllStr({1, 2}, JA)),
                             Member("ja_jp", "undecodable", EmptyTable) >>) >>),
      datapacks |-> NoDir],
     [mods |-> Dir(<< Jar(<< Member("en_us", "object", AllStr({1}, ENQ)),
                             Member("other", "object", AllStr({1, 2}, JA)) >>) >>),
      datapacks |-> Dir(<< Jar(<< Member("en_us", "object", OneTwo(Str(EN), Str(EMPTY))),
                                  Member("ja_jp", "object", AllStr({1}, JA)),
                                  Member("ja_jp", "nonobject", EmptyTable),
                                  Member("ja_jp", "object", AllStr({2}, JA)) >>) >>)],
     [mods |-> NoDir,
      datapacks |-> Dir(<< Jar(<< Member("en_us", "object", OneTwo(Str(EN), NonStr)),
                                  Member("ja_jp", "object", AllStr({1}, EMPTY)) >>) >>)] >>
WorldIds == 1..Len(Worlds)

\* ---------------------------------------------------------------- chunks
Min(a, b) == IF a < b THEN a ELSE b

\* range(start, stop, step) of line 289
RECURSIVE Range(_, _, _)
Range(start, stop, step) ==
  IF start >= stop THEN << >>
  ELSE << start >> \o Range(start + step, stop, step)

\* items[lo:hi] of line 289 (0-based, hi clipped to len(items))
Slice(items, lo, hi) ==
  [n \in 1..(Min(hi, Len(items)) - lo) |-> items[lo + n]]

\* lines 288-289 for chunk size size: the chunks, each the sequence of its keys
CreateChunksSkipsShort(items, size) ==
  LET starts == Range(0, Len(items) - size + 1, size)
  IN [j \in 1..Len(starts) |-> Slice(items, starts[j], starts[j] + size)]
CreateChunks(items, size) ==
  LET starts == Range(0, Len(items), size)
  IN [j \in 1..Len(starts) |-> Slice(items, starts[j], starts[j] + size)]

\* the loop of lines 261-263 over enumerate(chunks, 1): the number of
\* chunks, the keys of chunk j, chunk j as a table
NumChunks(t) == Len(CreateChunks(Items(t), ChunkSize))
ChunkKeys(t, j) ==
  LET chunks == CreateChunks(Items(t), ChunkSize)
  IN IF j \in 1..Len(chunks) THEN { chunks[j][n] : n \in 1..Len(chunks[j]) } ELSE {}
Chunk(t, j) == Restrict(t, ChunkKeys(t, j))

\* ---------------------------------------------------------------- collaborator
\* What _call_gemini_cli gives for a chunk:
\*   "exit"    non-zero return code: RuntimeError raised (lines 309-311, 333)
\*   "nojson"  no ```json block and no leading brace: input_data (line 322)
\*   "badjson" json.loads raises JSONDecodeError: input_data (line 330)
\*   "nondict" json.loads gives a list or scalar, which line 268 cannot merge:
\*             translated_data.update raises into line 276
\*   "ok"      json.loads gives a table
FailKinds == {"exit", "nojson", "badjson", "nondict"}
RaiseKinds == {"exit", "nondict"}

Resp(kind, tab) == [kind |-> kind, tab |-> tab]

\* The tables a collaborator may answer with: every key translated, the last
\* key left out, a key outside the chunk added, an empty translation.
Full(chunk) == [k \in DOMAIN chunk |-> JA]
Partial(chunk) ==
  LET last == CHOOSE x \in DOMAIN chunk : \A y \in DOMAIN chunk : y <= x
  IN [k \in (DOMAIN chunk) \ {last} |-> JA]
Extra(chunk) ==
  IF Keys \ DOMAIN chunk = {} THEN Full(chunk)
  ELSE LET other == CHOOSE x \in Keys \ DOMAIN chunk : \A y \in Keys \ DOMAIN chunk : x <= y
       IN [k \in (DOMAIN chunk) \cup {other} |-> JA]
Blank(chunk) == [k \in DOMAIN chunk |-> EMPTY]

Shapes == {"full", "partial", "extra", "blank"}
Shaped(shape, chunk) ==
  CASE shape = "full" -> Full(chunk)
    [] shape = "partial" -> Partial(chunk)
    [] shape = "extra" -> Extra(chunk)
    [] shape = "blank" -> Blank(chunk)

Responses(chunk) ==
  { Resp(kind, EmptyTable) : kind \in FailKinds }
    \cup { Resp("ok", Shaped(s, chunk)) : s \in Shapes }

\* A deterministic collaborator: its answer is a function of the chunk.
Oracles == [kind : [Keys -> {"ok", "exit", "nojson"}], shape : {"full", "partial", "extra"}]
Respond(o, chunk) ==
  LET first == CHOOSE x \in DOMAIN chunk : \A y \in DOMAIN chunk : x <= y
  IN IF o.kind[first] = "ok" THEN Resp("ok", Shaped(o.shape, chunk))
     ELSE Resp(o.kind[first], EmptyTable)

\* lines 266-280, on the cumulative table: the except branch merges the
\* chunk itself; a returned table (the translation, or input_data) is merged
FallbackDropsChunk(cumulative, chunk, resp) ==
  IF resp.kind \in RaiseKinds THEN cumulative
  ELSE IF resp.kind = "ok" THEN Merge(cumulative, resp.tab)
  ELSE Merge(cumulative, chunk)
ApplyResponse(cumulative, chunk, resp) ==
  IF resp.kind \in RaiseKinds THEN Merge(cumulative, chunk)
  ELSE IF resp.kind = "ok" THEN Merge(cumulative, resp.tab)
  ELSE Merge(cumulative, chunk)

\* ---------------------------------------------------------------- state
VARIABLES
  world,              \* index in Worlds of the installation on disk
  today,              \* the date datetime.now() gives
  oracle,             \* the deterministic collaborator (SpecFixed only)
  diffFiles,          \* lang_diff/all_diff_<day>.json
  untransFiles,       \* untranslated/all_untranslated_<day>.json
  transFiles,         \* translated/all_translated_<day>.json
  progress,           \* progress/progress_<i>.json
  published,          \* resourcepacks/<pack>/assets/minecraft/lang/ja_jp.json
  manifest,           \* resourcepacks/<pack>/pack.mcmeta
  pc,                 \* position of the running process, "idle" when none runs
  todo,               \* stages main has still to call, the current one first
  resume,             \* args.resume, 0 for None
  data_to_translate,  \* auto_translate locals
  translated_data,
  start_chunk,
  i,
  outDay,             \* the date in output_filename (line 240)
  sent,               \* history: chunk indexes given to the collaborator by this run
  ckpt0,              \* history: the checkpoint file this run found for its resume point
  lastKind,           \* history: kind of the collaborator's last answer in this run
  complete,           \* history: every table the collaborator returned in this
                      \* run held all keys of its chunk
  lastResult,         \* history: how the stage that last returned ended
  lastSave,           \* history: outcome of the last write of a stage's main artifact
  runs,               \* number of processes started so far
  faults              \* number of file writes that failed so far

env == << world, today, oracle >>
disk == << diffFiles, untransFiles, transFiles, progress, published, manifest >>
ctl == << pc, todo, resume >>
locals == << data_to_translate, translated_data, start_chunk, i, outDay, sent, ckpt0, lastKind, complete >>
hist == << lastResult, lastSave >>
budget == << runs, faults >>
vars == << env, disk, ctl, locals, hist, budget >>

pack_format == 48
PackMeta == [k \in {"pack_format"} |-> pack_format]

NoOracle == [kind |-> [k \in Keys |-> "ok"], shape |-> "full"]

ResumeArgs == 0..MaxKey
Actions == {"extract", "find", "translate", "build", "all"}

\* lines 460-472
StagesOf(action) ==
  IF action = "all" THEN << "extract", "find", "translate", "build" >>
  ELSE << action >>

InitLocals ==
  /\ data_to_translate = EmptyTable
  /\ translated_data = EmptyTable
  /\ start_chunk = 1
  /\ i = 1
  /\ outDay = 1
  /\ sent = {}
  /\ ckpt0 = Absent
  /\ lastKind = "none"
  /\ complete = TRUE

ResetLocals ==
  /\ data_to_translate' = EmptyTable
  /\ translated_data' = EmptyTable
  /\ start_chunk' = 1
  /\ i' = 1
  /\ outDay' = 1
  /\ sent' = {}
  /\ ckpt0' = Absent
  /\ lastKind' = "none"
  /\ complete' = TRUE

Init ==
  /\ world \in WorldIds
  /\ today = 1
  /\ oracle = NoOracle
  /\ diffFiles = [d \in Days |-> Absent]
  /\ untransFiles = [d \in Days |-> Absent]
  /\ transFiles = [d \in Days |-> Absent]
  /\ progress = [c \in ChunkIdx |-> Absent]
  /\ published = Absent
  /\ manifest = Absent
  /\ pc = "idle"
  /\ todo = << >>
  /\ resume = 0
  /\ InitLocals
  /\ lastResult = "none"
  /\ lastSave = "none"
  /\ runs = 0
  /\ faults = 0

\* ---------------------------------------------------------------- main
\* lines 455-472: a process starts, for one action and one --resume value
StartMain(action, r) ==
  /\ pc = "idle"
  /\ runs < MaxRuns
  /\ runs' = runs + 1
  /\ action \in {"translate", "all"} \/ r = 0
  /\ pc' = "stage"
  /\ todo' = StagesOf(action)
  /\ resume' = r
  /\ lastResult' = "none"
  /\ lastSave' = "none"
  /\ UNCHANGED << env, disk, locals, faults >>

\* lines 458 and 474-479: the constructor raises and main's handlers take it.
\* "fatal_setup": instance_path is no directory, FileNotFoundError (lines
\* 47-49) goes to line 474.  "unexpected": mkdir of a working directory fails
\* (line 79), the OSError goes to line 478.  No stage is called.
SetupFailures == {"fatal_setup", "unexpected"}
SetupFails(kind) ==
  /\ pc = "idle"
  /\ runs < MaxRuns
  /\ runs' = runs + 1
  /\ pc' = "exit"
  /\ todo' = << >>
  /\ lastResult' = kind
  /\ UNCHANGED << env, disk, resume, locals, lastSave, faults >>

\* The writes of one step end as outs says; at most MaxFaults writes fail in
\* a behaviour.
Failed(outs) == Cardinality({ n \in DOMAIN outs : outs[n] # "ok" })
Writes(outs) ==
  /\ faults + Failed(outs) <= MaxFaults
  /\ faults' = faults + Failed(outs)
  /\ UNCHANGED runs
NoWrite(outs) ==
  /\ \A n \in DOMAIN outs : outs[n] = "ok"
  /\ UNCHANGED budget

\* a stage returns to main
Return(result) ==
  /\ todo' = Tail(todo)
  /\ pc' = IF Tail(todo) = << >> THEN "exit" ELSE "stage"
  /\ lastResult' = result
  /\ UNCHANGED resume

AtStage(name) == pc = "stage" /\ todo # << >> /\ Head(todo) = name

\* KeyboardInterrupt at any point of a run (lines 476-477)
Interrupt ==
  /\ pc \notin {"idle", "exit"}
  /\ pc' = "exit"
  /\ todo' = << >>
  /\ lastResult' = "interrupted"
  /\ ResetLocals
  /\ UNCHANGED << env, disk, resume, lastSave, budget >>

\* lines 474-482: the exit status of the process, by the way main ended.
\* Each handler logs and falls through, main returns and the interpreter
\* ends with status 0; nothing re-raises or calls sys.exit.
ExitStatus(result) ==
  CASE result = "fatal_setup" -> 0
    [] result = "interrupted" -> 0
    [] result = "unexpected" -> 0
    [] OTHER -> 0

\* main returns and the process ends
Exit ==
  /\ pc = "exit"
  /\ pc' = "idle"
  /\ resume' = 0
  /\ lastResult' = "none"
  /\ lastSave' = "none"
  /\ UNCHANGED << env, disk, todo, locals, budget >>

\* ---------------------------------------------------------------- stage 1
ExtractLangDiff(o) ==
  /\ AtStage("extract")
  /\ LET agg == Aggregate(Worlds[world])
     IN diffFiles' = [diffFiles EXCEPT ![today] = SaveJson(AllDiff(agg.en, agg.ja), @, o)]
  /\ lastSave' = o
  /\ Writes(<< o >>)
  /\ Return("extract_done")
  /\ UNCHANGED << env, untransFiles, transFiles, progress, published, manifest, locals >>

\* ---------------------------------------------------------------- stage 2
\* lines 213-215
UntranslatedIgnoresEmpty(all_diff, translated) ==
  Restrict(all_diff, (DOMAIN all_diff) \ (DOMAIN translated))
Untranslated(all_diff, translated) ==
  LET already_translated_keys == { k \in DOMAIN translated : Truthy(translated[k]) }
      keys_to_translate == (DOMAIN all_diff) \ already_translated_keys
  IN Restrict(all_diff, keys_to_translate)

FindUntranslated(o) ==
  /\ AtStage("find")
  /\ LET latest == LatestDay(diffFiles)
     IN IF latest = 0
          THEN /\ Return("find_missing")
               /\ NoWrite(<< o >>)
               /\ UNCHANGED << untransFiles, lastSave >>
        ELSE IF LoadJson(diffFiles[latest]).none
          THEN /\ Return("find_unreadable")
               /\ NoWrite(<< o >>)
               /\ UNCHANGED << untransFiles, lastSave >>
        ELSE LET all_diff == LoadJson(diffFiles[latest]).tab
                 untranslated_dict ==
                   IF ~Exists(published) THEN all_diff
                   ELSE Untranslated(all_diff, LoadOrEmpty(published))
             IN /\ untransFiles' =
                     [untransFiles EXCEPT ![today] = SaveJson(untranslated_dict, @, o)]
                /\ lastSave' = o
                /\ Writes(<< o >>)
                /\ Return("find_done")
  /\ UNCHANGED << env, diffFiles, transFiles, progress, published, manifest, locals >>

\* ---------------------------------------------------------------- stage 3
\* progress_{r-1}.json, the file a resume point r names (line 252)
ProgressFileFor(r) == IF (r - 1) \in ChunkIdx THEN progress[r - 1] ELSE Absent

\* lines 249-259: the chunk to start from
StartChunkNoFallback(r, f) == IF r > 1 THEN r ELSE 1
StartChunkSkipsOne(r, f) == IF r > 1 /\ Exists(f) THEN r + 1 ELSE 1
StartChunk(r, f) == IF r > 1 /\ Exists(f) THEN r ELSE 1

\* lines 248-259: the cumulative table to start from
StartTable(r, f) == IF r > 1 /\ Exists(f) THEN LoadOrEmpty(f) ELSE EmptyTable

\* lines 230-259
AutoTranslateStart ==
  /\ AtStage("translate")
  /\ LET latest == LatestDay(untransFiles)
     IN IF latest = 0
          THEN /\ Return("translate_missing")
               /\ UNCHANGED locals
        ELSE IF LoadOrEmpty(untransFiles[latest]) = EmptyTable
          THEN /\ Return("translate_empty")
               /\ UNCHANGED locals
        ELSE LET data == LoadJson(untransFiles[latest]).tab
                 f == ProgressFileFor(resume)
             IN /\ data_to_translate' = data
                /\ outDay' = today
                /\ translated_data' = StartTable(resume, f)
                /\ start_chunk' = StartChunk(resume, f)
                /\ i' = StartChunk(resume, f)
                /\ sent' = {}
                /\ ckpt0' = IF resume > 1 THEN f ELSE Absent
                /\ lastKind' = "none"
                /\ complete' = TRUE
                /\ pc' = IF StartChunk(resume, f) > NumChunks(data) THEN "final" ELSE "chunk"
                /\ UNCHANGED << todo, resume, lastResult >>
  /\ UNCHANGED << env, disk, lastSave, budget >>

\* where the loop goes after chunk j of n: the try branch sleeps between
\* chunks (lines 273-275), the except branch continues at once (line 280)
AfterChunk(j, n, raised) ==
  IF j >= n THEN "final" ELSE IF raised THEN "chunk" ELSE "sleep"

\* lines 270-271 and 276-280: the checkpoint of chunk j after the answer
Checkpoint(old, cumulative, resp, o) ==
  IF resp.kind \in RaiseKinds THEN old ELSE SaveJson(cumulative, old, o)

\* lines 261-280: one iteration of the loop, for chunk i
ProcessChunk(resp, o) ==
  /\ pc = "chunk"
  /\ LET chunk == Chunk(data_to_translate, i)
         cumulative == ApplyResponse(translated_data, chunk, resp)
     IN /\ translated_data' = cumulative
        /\ progress' = [progress EXCEPT ![i] = Checkpoint(@, cumulative, resp, o)]
  /\ IF resp.kind \in RaiseKinds THEN NoWrite(<< o >>) ELSE Writes(<< o >>)
  /\ pc' = AfterChunk(i, NumChunks(data_to_translate), resp.kind \in RaiseKinds)
  /\ i' = i + 1
  /\ sent' = sent \cup {i}
  /\ lastKind' = resp.kind
  /\ complete' = (complete /\ (resp.kind = "ok" =>
                     ChunkKeys(data_to_translate, i) \subseteq DOMAIN resp.tab))
  /\ UNCHANGED << env, diffFiles, untransFiles, transFiles, published, manifest >>
  /\ UNCHANGED << todo, resume, data_to_translate, start_chunk, outDay, ckpt0, hist >>

\* any collaborator
CallCollaborator ==
  /\ pc = "chunk"
  /\ \E resp \in Responses(Chunk(data_to_translate, i)) :
       \E o \in SaveOutcomes : ProcessChunk(resp, o)

\* the deterministic collaborator
CallOracle ==
  /\ pc = "chunk"
  /\ \E o \in SaveOutcomes :
       ProcessChunk(Respond(oracle, Chunk(data_to_translate, i)), o)

\* line 275: time.sleep returns
Sleep ==
  /\ pc = "sleep"
  /\ pc' = "chunk"
  /\ UNCHANGED << env, disk, todo, resume, locals, hist, budget >>

\* line 282
FinalSave(o) ==
  /\ pc = "final"
  /\ transFiles' = [transFiles EXCEPT ![outDay] = SaveJson(translated_data, @, o)]
  /\ lastSave' = o
  /\ Writes(<< o >>)
  /\ pc' = "cleanup"
  /\ UNCHANGED << env, diffFiles, untransFiles, progress, published, manifest >>
  /\ UNCHANGED << todo, resume, locals, lastResult >>

\* line 284, _cleanup_progress_files
Cleanup ==
  /\ pc = "cleanup"
  /\ progress' = [c \in ChunkIdx |-> Absent]
  /\ Return("translate_done")
  /\ ResetLocals
  /\ UNCHANGED << env, diffFiles, untransFiles, transFiles, published, manifest, lastSave, budget >>

\* ---------------------------------------------------------------- stage 4
\* lines 398-401
BaseTranslations(f) == IF Exists(f) THEN LoadOrEmpty(f) ELSE EmptyTable

\* lines 404-407
FinalKeepsBase(base, newly) ==
  [k \in (DOMAIN base) \cup (DOMAIN newly) |->
      IF k \in DOMAIN base THEN base[k] ELSE newly[k]]
FinalTranslations(base, newly) == Merge(base, newly)

BuildResourcePack(om, o) ==
  /\ AtStage("build")
  /\ LET latest == LatestDay(transFiles)
     IN IF latest = 0
          THEN /\ Return("build_missing")
               /\ NoWrite(<< om, o >>)
               /\ UNCHANGED << published, manifest, lastSave >>
        ELSE IF LoadJson(transFiles[latest]).none
          THEN /\ Return("build_unreadable")
               /\ NoWrite(<< om, o >>)
               /\ UNCHANGED << published, manifest, lastSave >>
        ELSE LET newly_translated_data == LoadJson(transFiles[latest]).tab
                 final_translations ==
                   FinalTranslations(BaseTranslations(published), newly_translated_data)
             IN /\ manifest' = SaveJson(PackMeta, manifest, om)
                /\ published' = SaveJson(final_translations, published, o)
                /\ lastSave' = o
                /\ Writes(<< om, o >>)
                /\ Return("build_done")
  /\ UNCHANGED << env, diffFiles, untransFiles, transFiles, progress, locals >>

\* ---------------------------------------------------------------- environment
\* the date changes, while no process runs or while a run waits for the
\* collaborator or sleeps
Tick ==
  /\ pc \in {"idle", "chunk", "sleep"}
  /\ today < MaxDay
  /\ today' = today + 1
  /\ UNCHANGED << world, oracle, disk, ctl, locals, hist, budget >>

\* mods and datapacks are installed or removed
ChangeWorld ==
  /\ pc = "idle"
  /\ world' \in WorldIds \ {world}
  /\ UNCHANGED << today, oracle, disk, ctl, locals, hist, budget >>

\* ---------------------------------------------------------------- specifications
Next ==
  \/ \E a \in Actions : \E r \in ResumeArgs : StartMain(a, r)
  \/ \E o \in SaveOutcomes : ExtractLangDiff(o)
  \/ \E o \in SaveOutcomes : FindUntranslated(o)
  \/ AutoTranslateStart
  \/ CallCollaborator
  \/ Sleep
  \/ \E o \in SaveOutcomes : FinalSave(o)
  \/ Cleanup
  \/ \E om \in SaveOutcomes : \E o \in SaveOutcomes : BuildResourcePack(om, o)
  \/ \E kind \in SetupFailures : SetupFails(kind)
  \/ Interrupt
  \/ Exit
  \/ Tick
  \/ ChangeWorld

Spec == Init /\ [][Next]_vars

\* A fixed backlog and a deterministic collaborator: only translate runs.
Backlogs == { [k \in S |-> EN] : S \in (SUBSET Keys) \ {{}} }

InitFixed ==
  /\ world = 1
  /\ today = 1
  /\ oracle \in Oracles
  /\ diffFiles = [d \in Days |-> Absent]
  /\ \E b \in Backlogs : untransFiles = [d \in Days |-> IF d = 1 THEN File(b) ELSE Absent]
  /\ transFiles = [d \in Days |-> Absent]
  /\ progress = [c \in ChunkIdx |-> Absent]
  /\ published = Absent
  /\ manifest = Absent
  /\ pc = "idle"
  /\ todo = << >>
  /\ resume = 0
  /\ InitLocals
  /\ lastResult = "none"
  /\ lastSave = "none"
  /\ runs = 0
  /\ faults = 0

NextFixed ==
  \/ \E r \in ResumeArgs : StartMain("translate", r)
  \/ AutoTranslateStart
  \/ CallOracle
  \/ Sleep
  \/ \E o \in SaveOutcomes : FinalSave(o)
  \/ Cleanup
  \/ Interrupt
  \/ Exit

SpecFixed == InitFixed /\ [][NextFixed]_vars

\* The pipeline with a collaborator that answers with keys of the chunk it
\* was given only (it may leave keys out, and it may fail in every way).
ResponsesWithin(chunk) ==
  { resp \in Responses(chunk) : DOMAIN resp.tab \subseteq DOMAIN chunk }

CallCollaboratorWithin ==
  /\ pc = "chunk"
  /\ \E resp \in ResponsesWithin(Chunk(data_to_translate, i)) :
       \E o \in SaveOutcomes : ProcessChunk(resp, o)

NextWithin ==
  \/ \E a \in Actions : \E r \in ResumeArgs : StartMain(a, r)
  \/ \E o \in SaveOutcomes : ExtractLangDiff(o)
  \/ \E o \in SaveOutcomes : FindUntranslated(o)
  \/ AutoTranslateStart
  \/ CallCollaboratorWithin
  \/ Sleep
  \/ \E o \in SaveOutcomes : FinalSave(o)
  \/ Cleanup
  \/ \E om \in SaveOutcomes : \E o \in SaveOutcomes : BuildResourcePack(om, o)
  \/ \E kind \in SetupFailures : SetupFails(kind)
  \/ Interrupt
  \/ Exit
  \/ Tick
  \/ ChangeWorld

SpecWithin == Init /\ [][NextWithin]_vars

\* ---------------------------------------------------------------- claims
InRun == pc \in {"chunk", "sleep", "final", "cleanup"}

\* the chunks of the running auto_translate
N == NumChunks(data_to_translate)

\* true of a step that is one iteration of the loop of auto_translate
ChunkStep == pc = "chunk" /\ i' = i + 1

\* what the loop merges for chunk j of backlog b under collaborator o: the
\* returned table on success, the chunk itself on failure (spec 4.4)
Effect(b, o, j) ==
  LET c == Chunk(b, j)
      r == Respond(o, c)
  IN IF r.kind = "ok" THEN r.tab ELSE c

\* the cumulative table of an uninterrupted run after chunks 1..j
RECURSIVE Cumulative(_, _, _)
Cumulative(b, o, j) ==
  IF j = 0 THEN EmptyTable ELSE Merge(Cumulative(b, o, j - 1), Effect(b, o, j))

FullRun(b, o) == Cumulative(b, o, NumChunks(b))

\* C1: a run resumed at chunk k (2 <= k <= number of chunks) from the
\* checkpoint an uninterrupted run writes after chunk k-1 ends with the same
\* cumulative table as the uninterrupted run, and writes it as the final
\* artifact (fixed backlog, deterministic collaborator).
C1_ResumeEqualsFullRun ==
  (/\ pc \in {"final", "cleanup"}
   /\ resume \in 2..N
   /\ ckpt0 = File(Cumulative(data_to_translate, oracle, resume - 1)))
    => /\ translated_data = FullRun(data_to_translate, oracle)
       /\ (pc = "cleanup" /\ lastSave = "ok")
            => transFiles[outDay] = File(FullRun(data_to_translate, oracle))

C1_Witness ==
  /\ pc = "cleanup"
  /\ lastSave = "ok"
  /\ resume \in 2..N
  /\ ckpt0 = File(Cumulative(data_to_translate, oracle, resume - 1))
  /\ sent = resume..N
  /\ Cardinality(sent) >= 2
  /\ \E k \in DOMAIN translated_data : translated_data[k] = JA
  /\ \E k \in DOMAIN translated_data : translated_data[k] = EN

\* C2: while no write has failed, once chunk i-1 has been processed by this
\* run and before chunk i is submitted, checkpoint progress_{i-1} holds the
\* cumulative result through chunk i-1, whether that chunk succeeded or fell
\* back.
C2_CheckpointBeforeNextChunk ==
  (pc \in {"chunk", "sleep"} /\ (i - 1) \in sent /\ faults = 0)
    => progress[i - 1] = File(translated_data)

C4_TableComplete ==
  (/\ pc = "cleanup"
   /\ lastSave = "ok"
   /\ complete
   /\ resume > 1 => (resume <= N /\ ckpt0.st # "absent")
   /\ ckpt0.st = "ok" =>
        \A j \in 1..(start_chunk - 1) : ChunkKeys(data_to_translate, j) \subseteq DOMAIN ckpt0.tab)
    => /\ transFiles[outDay].st = "ok"
       /\ DOMAIN data_to_translate \subseteq DOMAIN transFiles[outDay].tab

\* C5: a run given a resume point r > 1 whose checkpoint progress_{r-1} does
\* not exist starts as a run without resume point does (chunk 1, empty
\* cumulative result), and when it reaches the final write it has processed
\* every chunk.
C5_MissingCheckpointFallsBack ==
  (InRun /\ resume > 1 /\ ckpt0.st = "absent")
    => /\ start_chunk = 1
       /\ sent = 1..(i - 1)
       /\ sent = {} => (pc = "chunk" /\ i = 1 /\ translated_data = EmptyTable)
       /\ pc \in {"final", "cleanup"} => sent = 1..N

C5_Witness ==
  /\ pc = "cleanup"
  /\ lastSave = "ok"
  /\ resume > 1
  /\ ckpt0.st = "absent"
  /\ N >= 2
  /\ sent = 1..N
  /\ DOMAIN data_to_translate \subseteq DOMAIN transFiles[outDay].tab

\* true of a step in which build_resource_pack runs and returns
BuildStep ==
  AtStage("build") /\ lastResult' \in {"build_done", "build_missing", "build_unreadable"}

\* the table a published file holds, none when it is absent or unreadable
TableOf(f) == IF f.st = "ok" THEN f.tab ELSE EmptyTable

\* the file _get_latest_file names, absent when there is none
LatestOf(dir) == IF LatestDay(dir) = 0 THEN Absent ELSE dir[LatestDay(dir)]

LatestTranslated == TableOf(LatestOf(transFiles))

\* C6: a build that reaches its end and whose write succeeds leaves as
\* PublishedTable the merge of the prior table and the latest translated
\* artifact: the keys of both, the new value for every key of the
\* artifact, the prior value for every other key.
C6_PublishIsMerge ==
  [][(BuildStep /\ lastResult' = "build_done" /\ lastSave' = "ok") =>
       /\ published'.st = "ok"
       /\ DOMAIN published'.tab = (DOMAIN TableOf(published)) \cup (DOMAIN LatestTranslated)
       /\ \A k \in DOMAIN LatestTranslated : published'.tab[k] = LatestTranslated[k]
       /\ \A k \in (DOMAIN TableOf(published)) \ (DOMAIN LatestTranslated) :
            published'.tab[k] = published.tab[k]]_vars

C6_Witness ==
  /\ pc = "exit"
  /\ lastResult = "build_done"
  /\ lastSave = "ok"
  /\ published.st = "ok"
  /\ LatestTranslated # EmptyTable
  /\ \A k \in DOMAIN LatestTranslated : published.tab[k] = LatestTranslated[k]
  /\ \E k \in DOMAIN published.tab : k \notin DOMAIN LatestTranslated

\* C7: a build that finds a published file it cannot parse does not end as
\* a successful build and leaves the file as it is.
C7_MalformedPublishedAborts ==
  [][(BuildStep /\ published.st = "corrupt") =>
       (lastResult' # "build_done" /\ published' = published)]_vars

\* C8: the published file is never empty, truncated or partly written.
C8_PublishedNeverPartial == published.st # "corrupt"

\* true of a step in which find_untranslated runs and writes its artifact
FindStep == AtStage("find") /\ lastResult' = "find_done" /\ lastSave' = "ok"

LatestDiff == TableOf(LatestOf(diffFiles))

\* a key counts as translated when its published value is not empty
Settled(k) == published.st = "ok" /\ k \in DOMAIN published.tab /\ published.tab[k] # EMPTY

C10_SettledNeverResubmitted ==
  [][(ChunkStep /\ faults' = 0) =>
       \A k \in ChunkKeys(data_to_translate, i) : ~Settled(k)]_vars

\* true of a step in which extract_lang_diff runs and writes its artifact
ExtractStep == AtStage("extract") /\ lastResult' = "extract_done" /\ lastSave' = "ok"

\* diff(a, b) as the contract states it: the entries of a whose key is no
\* key of b or has an empty value in b
ContractDiff(a, b) ==
  Restrict(a, { k \in DOMAIN a : k \notin DOMAIN b \/ b[k] = EMPTY })

\* C11: the artifact extract_lang_diff writes is the diff of the aggregated
\* source table and the aggregated target table: every source entry whose
\* key is no key of the target table or has an empty value there, and no
\* other entry.
C11_ExtractIsContractDiff ==
  [][ExtractStep =>
       diffFiles'[today] =
         File(ContractDiff(Aggregate(Worlds[world]).en, Aggregate(Worlds[world]).ja))]_vars

\* the archives of an installation, those of a missing directory left out
ArchivesOf(w) ==
  (IF w.mods.exists THEN w.mods.archives ELSE << >>)
    \o (IF w.datapacks.exists THEN w.datapacks.archives ELSE << >>)

\* the keys with a string value in the well-formed matching members for
\* language lang in the readable archives of an installation
WellFormedKeys(w, lang) ==
  { k \in Keys :
      \E a \in DOMAIN ArchivesOf(w) :
        /\ ~ArchivesOf(w)[a].bad
        /\ \E m \in DOMAIN ArchivesOf(w)[a].members :
             LET mem == ArchivesOf(w)[a].members[m]
             IN /\ mem.lang = lang /\ mem.assets /\ mem.langdir
                /\ mem.kind = "object"
                /\ k \in DOMAIN mem.data
                /\ mem.data[k].str }

\* C12: extract_lang_diff reaches its end whatever entries and archives are
\* malformed, and every well-formed matching entry of every readable archive
\* is folded in: the artifact holds exactly the keys that some well-formed
\* en_us entry gives a string value and no well-formed ja_jp entry does.
C12_AggregationResilient ==
  [][(AtStage("extract") /\ todo' = Tail(todo) /\ lastResult' # "interrupted") =>
       /\ lastResult' = "extract_done"
       /\ lastSave' = "ok" =>
            /\ diffFiles'[today].st = "ok"
            /\ DOMAIN diffFiles'[today].tab =
                 WellFormedKeys(Worlds[world], "en_us") \ WellFormedKeys(Worlds[world], "ja_jp")]_vars

\* C13: when main has ended, the exit status of the process is non-zero
\* exactly when it ended on a missing root path or on an unexpected
\* exception; after an interruption and after stages that absorbed their
\* failures it is zero.
C13_ExitCodeByClass ==
  pc = "exit" => ((lastResult \in SetupFailures) <=> (ExitStatus(lastResult) # 0))

\* C14: after every chunk but the last the driver waits before the next
\* chunk is submitted, whether the chunk succeeded or fell back; after the
\* last chunk it goes to the final write without waiting.
C14_WaitBetweenChunks ==
  [][ChunkStep =>
       /\ i < N => pc' = "sleep"
       /\ i >= N => pc' = "final"]_vars

\* true of a step in which auto_translate deletes the checkpoints and returns
CleanupStep == pc = "cleanup" /\ lastResult' = "translate_done"

\* C15: the checkpoints are deleted only when the final translated artifact
\* holds the cumulative result.
C15_CleanupOnlyAfterFinalWrite ==
  [][CleanupStep => transFiles[outDay] = File(translated_data)]_vars

\* C16: while no write has failed, the checkpoints on disk are contiguous
\* and monotone: when checkpoint c > 1 exists, checkpoint c-1 exists and its
\* keys are keys of checkpoint c.
C16_CheckpointsContiguousMonotone ==
  faults = 0 =>
    \A c \in ChunkIdx :
      (c > 1 /\ Exists(progress[c])) =>
        /\ Exists(progress[c - 1])
        /\ DOMAIN TableOf(progress[c - 1]) \subseteq DOMAIN TableOf(progress[c])

\* the concatenation of a sequence of sequences
RECURSIVE Concat(_)
Concat(seqs) == IF seqs = << >> THEN << >> ELSE Head(seqs) \o Concat(Tail(seqs))

\* the least q with q * n >= len
Ceil(len, n) == CHOOSE q \in 0..len : q * n >= len /\ \A r \in 0..len : r * n >= len => q <= r

\* C17: for every chunk size n, _create_chunks gives ceil(|backlog| / n)
\* chunks, each of 1 to n entries, all but the last of n entries, and the
\* chunks in order hold the backlog's entries in their order, none lost or
\* twice.
C17_ChunksPartitionBacklog ==
  \A n \in 1..MaxKey :
    LET items == Items(data_to_translate)
        chunks == CreateChunks(items, n)
    IN /\ Len(chunks) = Ceil(Len(items), n)
       /\ \A j \in 1..Len(chunks) : Len(chunks[j]) \in 1..n
       /\ \A j \in 1..(Len(chunks) - 1) : Len(chunks[j]) = n
       /\ Concat(chunks) = items

C17_Witness ==
  /\ pc = "final"
  /\ sent = 1..N
  /\ \E n \in 1..MaxKey :
       LET chunks == CreateChunks(Items(data_to_translate), n)
       IN /\ Len(chunks) >= 2
          /\ Len(chunks[Len(chunks)]) < n
          /\ Len(chunks[1]) = n

\* true of a step in which auto_translate returns before its loop
TranslateReturnsEarly ==
  AtStage("translate") /\ todo' = Tail(todo) /\ lastResult' # "interrupted"

LatestBacklog == LatestOf(untransFiles)

\* C18: while no write has failed, auto_translate on a latest backlog of
\* zero entries returns without calling the collaborator and without a
\* result, and the build that follows it in the same process adds no key to
\* and changes no value of the PublishedTable.
C18_EmptyBacklogPublishesNothing ==
  /\ [][(TranslateReturnsEarly /\ LatestBacklog = File(EmptyTable)) =>
          /\ lastResult' = "translate_empty"
          /\ sent' = {}
          /\ transFiles' = transFiles]_vars
  /\ [][(BuildStep /\ lastResult = "translate_empty" /\ faults' = 0) =>
          TableOf(published') = TableOf(published)]_vars

\* C19: auto_translate on a latest backlog that exists and cannot be parsed
\* ends otherwise than on a readable backlog of zero entries; a chunk on
\* which the collaborator fails does not end the stage.
C19_UnreadableBacklogFails ==
  /\ [][(TranslateReturnsEarly /\ LatestBacklog.st = "corrupt") =>
          lastResult' # "translate_empty"]_vars
  /\ [][(TranslateReturnsEarly /\ LatestBacklog = File(EmptyTable)) =>
          lastResult' = "translate_empty"]_vars
  /\ [][(ChunkStep /\ lastKind' \in FailKinds) => lastResult' = lastResult]_vars

\* C20: while no write has failed, a dated artifact that exists is not
\* changed by any later step.
C20_ArtifactsWriteOnce ==
  [][faults' = 0 =>
       \A d \in Days :
         /\ Exists(diffFiles[d]) => diffFiles'[d] = diffFiles[d]
         /\ Exists(untransFiles[d]) => untransFiles'[d] = untransFiles[d]
         /\ Exists(transFiles[d]) => transFiles'[d] = transFiles[d]]_vars

\* C21: with a collaborator that only returns keys of the chunk it was
\* given, the final translated artifact auto_translate has written holds
\* only keys of the backlog this run loaded, whatever checkpoint the run
\* resumed from.
C21_ArtifactKeysWithinBacklog ==
  (pc = "cleanup" /\ lastSave = "ok")
    => /\ transFiles[outDay].st = "ok"
       /\ DOMAIN transFiles[outDay].tab \subseteq DOMAIN data_to_translate

====
